---- MODULE Spec2Model ----
(***************************************************************************)
(* Model of the MQTT fixed header codec of surgemq, message/header.go:     *)
(* the header struct, its accessors and setters, encode and decode.        *)
(*                                                                         *)
(* A byte buffer is the record [pre |-> s, pad |-> k]: the bytes of s      *)
(* followed by k zero bytes.  Buffers are kept normalised (s never ends in *)
(* a zero byte) so that equal contents are equal values.  A slice is       *)
(* modelled with cap = len.                                                *)
(***************************************************************************)
EXTENDS Integers, Sequences, FiniteSets, TLC

VARIABLES
    remLen,      \* header.remLen, an int32
    mTypeFlags,  \* header.mTypeFlags: nil, an owned byte, or byte 0 of dBuf
    packetID,    \* header.packetID: <<>> (nil) or <<hi, lo>>
    dBuf,        \* header.dBuf: the buffer last passed to decode
    dirty,       \* header.dirty
    dst,         \* the destination buffer of the last call, when it was encode
    op,          \* the last call
    arg,         \* its argument
    ret,         \* its value (a byte count for encode and decode)
    err          \* its error: "nil", an error kind, or "panic"

vars == <<remLen, mTypeFlags, packetID, dBuf, dirty, dst, op, arg, ret, err>>
hdr == <<remLen, mTypeFlags, packetID, dBuf, dirty>>

----------------------------------------------------------------------------
(* Bounds of the model *)

\* longest run of continuation bytes in a source's length field
MaxCont == 5
\* longest fixed-size destination handed to encode
MaxDst == 6

----------------------------------------------------------------------------
(* Program constants *)

maxRemainingLength == 268435455
RESERVED == 0
PUBLISH == 3
RESERVED2 == 15
MaxVarintLen64 == 10

\* MessageType.Valid
Valid(t) == t > RESERVED /\ t < RESERVED2

\* MessageType.DefaultFlags: PUBREL, SUBSCRIBE and UNSUBSCRIBE carry 0010
DefaultFlags(t) == IF t \in {6, 8, 10} THEN 2 ELSE 0

\* ValidQos
ValidQos(q) == q \in {0, 1, 2}

----------------------------------------------------------------------------
(* Byte buffers *)

NoBuf == [pre |-> <<>>, pad |-> -1]

RECURSIVE Norm(_)
Norm(b) ==
    IF Len(b.pre) > 0 /\ b.pre[Len(b.pre)] = 0
    THEN Norm([pre |-> SubSeq(b.pre, 1, Len(b.pre) - 1), pad |-> b.pad + 1])
    ELSE b

Buf(s, k) == Norm([pre |-> s, pad |-> k])

BufLen(b) == Len(b.pre) + b.pad

\* b[i], 0-based, for 0 <= i < BufLen(b)
ByteAt(b, i) == IF i < Len(b.pre) THEN b.pre[i + 1] ELSE 0

\* the first k bytes of b, k <= BufLen(b)
Prefix(b, k) == [i \in 1..k |-> ByteAt(b, i - 1)]

\* b with b[i] = v, for 0 <= i < BufLen(b)
WriteAt(b, i, v) ==
    LET w == IF i < Len(b.pre) THEN Len(b.pre) ELSE i + 1
        s == [j \in 1..w |-> IF j = i + 1 THEN v ELSE ByteAt(b, j - 1)]
    IN  Norm([pre |-> s, pad |-> BufLen(b) - w])

RECURSIVE WriteSeq(_, _, _)
WriteSeq(b, i, s) ==
    IF s = <<>> THEN b ELSE WriteSeq(WriteAt(b, i, Head(s)), i + 1, Tail(s))

Rep(c, k) == [i \in 1..k |-> c]

----------------------------------------------------------------------------
(* encoding/binary *)

\* binary.PutUvarint: the bytes written for x >= 0
RECURSIVE PutUvarint(_)
PutUvarint(x) ==
    IF x >= 128 THEN <<(x % 128) + 128>> \o PutUvarint(x \div 128) ELSE <<x>>

\* binary.Uvarint on b[from:]: n is the count it returns (0: buffer too
\* small, < 0: overflow) and g the 7-bit groups of the value, least
\* significant first (<<>> when the value is 0 because of an error).
RECURSIVE UvarintAt(_, _, _, _)
UvarintAt(b, from, i, g) ==
    IF from + i >= BufLen(b) THEN [g |-> <<>>, n |-> 0]
    ELSE IF i = MaxVarintLen64 THEN [g |-> <<>>, n |-> -(i + 1)]
    ELSE LET c == ByteAt(b, from + i) IN
         IF c < 128
         THEN IF i = MaxVarintLen64 - 1 /\ c > 1
              THEN [g |-> <<>>, n |-> -(i + 1)]
              ELSE [g |-> Append(g, c), n |-> i + 1]
         ELSE UvarintAt(b, from, i + 1, Append(g, c % 128))

Uvarint(b, from) == UvarintAt(b, from, 0, <<>>)

\* int32(x) for the uint64 x whose 7-bit groups are g: bits 0..27 come from
\* groups 1..4, bits 28..31 from the low half of group 5, bit 31 is the sign.
Group(g, i) == IF i <= Len(g) THEN g[i] ELSE 0
Int32(g) ==
    LET top == Group(g, 5) % 16
        hi  == IF top >= 8 THEN top - 16 ELSE top
    IN  Group(g, 1) + Group(g, 2) * 128 + Group(g, 3) * 16384
          + Group(g, 4) * 2097152 + hi * 268435456

----------------------------------------------------------------------------
(* The header *)

NilSlice == [ref |-> "nil", b |-> 0]
Own(v) == [ref |-> "own", b |-> v]
InDBuf == [ref |-> "dBuf", b |-> 0]

\* h.mTypeFlags[0], when len(h.mTypeFlags) = 1
TypeFlagsByte(m, d) == IF m.ref = "dBuf" THEN ByteAt(d, 0) ELSE m.b

\* header.msgLen
msgLen(r) ==
    IF r <= 127 THEN 2
    ELSE IF r <= 16383 THEN 3
    ELSE IF r <= 2097151 THEN 4
    ELSE 5

\* The effect of header.Type() on mTypeFlags and dirty
TypeAlloc(m) == IF m.ref = "nil" THEN Own(0) ELSE m
\* Type() that allocates without marking the header
TypeDirtyKept(m, dy) == dy
TypeDirty(m, dy) == dy \/ m.ref = "nil"

Init ==
    /\ remLen = 0
    /\ mTypeFlags = NilSlice
    /\ packetID = <<>>
    /\ dBuf = NoBuf
    /\ dirty = FALSE
    /\ dst = NoBuf
    /\ op = "new"
    /\ arg = 0
    /\ ret = 0
    /\ err = "nil"

Running == err # "panic"

\* header.Type
Type ==
    /\ Running
    /\ mTypeFlags' = TypeAlloc(mTypeFlags)
    /\ dirty' = TypeDirty(mTypeFlags, dirty)
    /\ op' = "Type" /\ arg' = 0 /\ err' = "nil"
    /\ ret' = TypeFlagsByte(mTypeFlags', dBuf) \div 16
    /\ dst' = NoBuf
    /\ UNCHANGED <<remLen, packetID, dBuf>>

\* The byte of SetType without the default flags
SetTypeByteNoFlags(t) == t * 16

\* header.SetType
SetTypeByte(t) == t * 16 + (DefaultFlags(t) % 16)
\* SetType as a copy-on-write setter: a byte that lives in dBuf is moved to
\* owned storage before it is written
SetTypeCopy(t) ==
    /\ Running
    /\ op' = "SetType" /\ arg' = t /\ ret' = 0 /\ dst' = NoBuf
    /\ IF ~Valid(t)
       THEN /\ err' = "InvalidPacketType"
            /\ UNCHANGED hdr
       ELSE /\ err' = "nil"
            /\ dirty' = (dirty \/ mTypeFlags.ref # "own")
            /\ mTypeFlags' = Own(SetTypeByte(t))
            /\ UNCHANGED <<remLen, packetID, dBuf>>

SetType(t) ==
    /\ Running
    /\ op' = "SetType" /\ arg' = t /\ ret' = 0 /\ dst' = NoBuf
    /\ IF ~Valid(t)
       THEN /\ err' = "InvalidPacketType"
            /\ UNCHANGED hdr
       ELSE /\ err' = "nil"
            /\ dirty' = (dirty \/ mTypeFlags.ref = "nil")
            /\ IF mTypeFlags.ref = "dBuf"
               THEN /\ mTypeFlags' = mTypeFlags
                    /\ dBuf' = WriteAt(dBuf, 0, SetTypeByte(t))
               ELSE /\ mTypeFlags' = Own(SetTypeByte(t))
                    /\ dBuf' = dBuf
            /\ UNCHANGED <<remLen, packetID>>

\* header.Flags: indexes mTypeFlags without the length check of Type
Flags ==
    /\ Running
    /\ op' = "Flags" /\ arg' = 0 /\ dst' = NoBuf
    /\ IF mTypeFlags.ref = "nil"
       THEN err' = "panic" /\ ret' = 0
       ELSE err' = "nil" /\ ret' = TypeFlagsByte(mTypeFlags, dBuf) % 16
    /\ UNCHANGED hdr

\* header.RemainingLength
RemainingLength == remLen

\* SetRemainingLength with the upper bound off by one
SetRemainingLengthBelowMax(n) ==
    /\ Running
    /\ op' = "SetRemainingLength" /\ arg' = n /\ ret' = 0 /\ dst' = NoBuf
    /\ IF n >= maxRemainingLength \/ n < 0
       THEN /\ err' = "RemainingLengthOutOfRange"
            /\ UNCHANGED hdr
       ELSE /\ err' = "nil"
            /\ remLen' = n
            /\ dirty' = TRUE
            /\ UNCHANGED <<mTypeFlags, packetID, dBuf>>

\* header.SetRemainingLength
SetRemainingLength(n) ==
    /\ Running
    /\ op' = "SetRemainingLength" /\ arg' = n /\ ret' = 0 /\ dst' = NoBuf
    /\ IF n > maxRemainingLength \/ n < 0
       THEN /\ err' = "RemainingLengthOutOfRange"
            /\ UNCHANGED hdr
       ELSE /\ err' = "nil"
            /\ remLen' = n
            /\ dirty' = TRUE
            /\ UNCHANGED <<mTypeFlags, packetID, dBuf>>

\* binary.BigEndian.Uint16 and PutUint16
Uint16(s) == s[1] * 256 + s[2]
\* PutUint16 with the low byte first
PutUint16Little(v) == <<v % 256, v \div 256>>
PutUint16(v) == <<v \div 256, v % 256>>

\* header.PacketId
PacketIdOf(p) == IF Len(p) = 2 THEN Uint16(p) ELSE 0
PacketId == PacketIdOf(packetID)

\* header.SetPacketId
SetPacketId(v) ==
    /\ Running
    /\ op' = "SetPacketId" /\ arg' = v /\ ret' = 0 /\ dst' = NoBuf
    /\ err' = "nil"
    /\ IF v = 0
       THEN UNCHANGED hdr
       ELSE /\ packetID' = PutUint16(v)
            /\ dirty' = (dirty \/ Len(packetID) # 2)
            /\ UNCHANGED <<remLen, mTypeFlags, dBuf>>

Min(a, b) == IF a < b THEN a ELSE b

\* A destination of dl bytes as the caller hands it to encode: its first
\* bytes (at most MaxDst) hold 0xAA, the rest of a long one is zero.
FreshDst(dl) == Buf(Rep(170, Min(dl, MaxDst)), dl - Min(dl, MaxDst))

\* The error of header.encode on a destination of dl bytes
EncodeErr(r, t, dl) ==
    IF dl < msgLen(r) THEN "BufferTooSmall"
    ELSE IF r > maxRemainingLength \/ r < 0 THEN "RemainingLengthOutOfRange"
    ELSE IF ~Valid(t) THEN "InvalidPacketType"
    ELSE "nil"

\* encode that also writes the packet identifier
EncodeBytesId(b, r) == <<b>> \o PutUvarint(r) \o packetID

\* The bytes a successful header.encode writes at dst[0:]
EncodeBytes(b, r) == <<b>> \o PutUvarint(r)

\* header.encode
Encode(dl) ==
    LET m == TypeAlloc(mTypeFlags)
        b == TypeFlagsByte(m, dBuf)
        e == EncodeErr(remLen, b \div 16, dl)
        reached == e \in {"InvalidPacketType", "nil"}
    IN  /\ Running
        /\ op' = "encode" /\ arg' = dl /\ err' = e
        /\ mTypeFlags' = IF reached THEN m ELSE mTypeFlags
        /\ dirty' = IF reached THEN TypeDirty(mTypeFlags, dirty) ELSE dirty
        /\ IF e = "nil"
           THEN /\ dst' = WriteSeq(FreshDst(dl), 0, EncodeBytes(b, remLen))
                /\ ret' = Len(EncodeBytes(b, remLen))
           ELSE /\ dst' = FreshDst(dl)
                /\ ret' = 0
        /\ UNCHANGED <<remLen, packetID, dBuf>>

\* decode without the comparison with the type the header held
DecodeTypeErrAnyPrior(mType, b) ==
    LET t == b \div 16
        f == b % 16
    IN  IF ~Valid(t) THEN "InvalidPacketType"
        ELSE IF t # PUBLISH /\ f # DefaultFlags(t) THEN "InvalidFlags"
        ELSE IF t = PUBLISH /\ ~ValidQos((f \div 2) % 4) THEN "InvalidQoS"
        ELSE "nil"

\* decode with the flags of every type but PUBLISH compared with 0
DecodeTypeErrZeroFlags(mType, b) ==
    LET t == b \div 16
        f == b % 16
    IN  IF ~Valid(t) THEN "InvalidPacketType"
        ELSE IF mType # t THEN "TypeMismatch"
        ELSE IF t # PUBLISH /\ f # 0 THEN "InvalidFlags"
        ELSE IF t = PUBLISH /\ ~ValidQos((f \div 2) % 4) THEN "InvalidQoS"
        ELSE "nil"

\* decode with the QoS read from bits 1-0 of the flags
DecodeTypeErrQosBits(mType, b) ==
    LET t == b \div 16
        f == b % 16
    IN  IF ~Valid(t) THEN "InvalidPacketType"
        ELSE IF mType # t THEN "TypeMismatch"
        ELSE IF t # PUBLISH /\ f # DefaultFlags(t) THEN "InvalidFlags"
        ELSE IF t = PUBLISH /\ ~ValidQos(f % 4) THEN "InvalidQoS"
        ELSE "nil"

\* The first failing step of header.decode before the length field is read,
\* for a header that held type mType and a source whose first byte is b
DecodeTypeErr(mType, b) ==
    LET t == b \div 16
        f == b % 16
    IN  IF ~Valid(t) THEN "InvalidPacketType"
        ELSE IF mType # t THEN "TypeMismatch"
        ELSE IF t # PUBLISH /\ f # DefaultFlags(t) THEN "InvalidFlags"
        ELSE IF t = PUBLISH /\ ~ValidQos((f \div 2) % 4) THEN "InvalidQoS"
        ELSE "nil"

\* decode with the truncation test off by one
DecodeLenOfStrict(u, avail) ==
    LET total == 1 + u.n
        r == Int32(u.g)
    IN  [remLen |-> r,
         total |-> total,
         err |-> IF r > maxRemainingLength THEN "RemainingLengthOutOfRange"
                 ELSE IF total < 0 THEN "panic"
                 ELSE IF r >= avail - total THEN "TruncatedMessage"
                 ELSE "nil"]

\* decode with the length compared with the whole source, header included
DecodeLenOfWhole(u, avail) ==
    LET total == 1 + u.n
        r == Int32(u.g)
    IN  [remLen |-> r,
         total |-> total,
         err |-> IF r > maxRemainingLength THEN "RemainingLengthOutOfRange"
                 ELSE IF total < 0 THEN "panic"
                 ELSE IF r > avail THEN "TruncatedMessage"
                 ELSE "nil"]

\* The length part of header.decode: the stored length, the count returned
\* and the error
DecodeLenOf(u, avail) ==
    LET total == 1 + u.n
        r == Int32(u.g)
    IN  [remLen |-> r,
         total |-> total,
         err |-> IF r > maxRemainingLength THEN "RemainingLengthOutOfRange"
                 ELSE IF total < 0 THEN "panic"
                 ELSE IF r > avail - total THEN "TruncatedMessage"
                 ELSE "nil"]
DecodeLen(src) == DecodeLenOf(Uvarint(src, 1), BufLen(src))

\* header.decode
Decode(src) ==
    LET m == TypeAlloc(mTypeFlags)
        mType == TypeFlagsByte(m, dBuf) \div 16
    IN  /\ Running
        /\ op' = "decode" /\ arg' = 0 /\ dst' = NoBuf
        /\ dBuf' = src
        /\ dirty' = TypeDirty(mTypeFlags, dirty)
        /\ UNCHANGED packetID
        /\ IF BufLen(src) = 0
           THEN \* src[0:1] is out of range; the old byte stays in its buffer
                /\ err' = "panic" /\ ret' = 0
                /\ mTypeFlags' = Own(TypeFlagsByte(m, dBuf))
                /\ UNCHANGED remLen
           ELSE /\ mTypeFlags' = InDBuf
                /\ LET e == DecodeTypeErr(mType, ByteAt(src, 0)) IN
                   IF e # "nil"
                   THEN err' = e /\ ret' = 0 /\ UNCHANGED remLen
                   ELSE \E l \in {DecodeLen(src)} :
                            err' = l.err /\ ret' = l.total /\ remLen' = l.remLen

----------------------------------------------------------------------------
(* The calls of the model.  Three specifications run the same operations  *)
(* on different inputs: Spec explores the length field, SpecTypes the     *)
(* first byte, SpecRoundTrip the encoding of every legal header.          *)

Types == 0..15
Lengths == {-1, 0, 127, 128, 16383, 16384, 2097151, 2097152,
            268435455, 268435456}
PacketIds == {0, 4321}
PacketIdsWide == {0, 4321, 65535}

\* Length fields of a source: a run of continuation bytes, terminated or not
Tails ==
    {Rep(128, k) \o t : k \in 0..MaxCont, t \in {<<>>, <<0>>, <<1>>, <<127>>}}
      \cup {Rep(255, k) \o <<127>> : k \in 1..MaxCont}

\* Length fields that overflow 64 bits: a tenth byte above 1, an eleventh byte
Overflows == {Rep(128, 9) \o <<127>>, Rep(128, 10) \o <<1>>}

\* A six-byte length field of value 2^35 + 1, which is 1 in 32 bits
Wraps == {<<129, 128, 128, 128, 128, 1>>}

\* Sources of Spec: none, and CONNECT or PUBLISH (DUP, QoS 1, RETAIN) before
\* every length field, or before a one-byte length and one more byte
Sources ==
    {Buf(<<>>, 0)}
      \cup {Buf(<<b>> \o t, 0) :
                b \in {16, 59}, t \in Tails \cup Overflows \cup Wraps}
      \cup {Buf(<<b, t>>, 1) : b \in {16, 59}, t \in {0, 1, 127}}

\* Sources of SpecTypes: every first byte before a length field that is
\* complete or out of range
TypeSources ==
    {Buf(<<b>> \o t, 0) : b \in 0..255, t \in {<<0>>, Rep(128, 4) \o <<1>>}}

\* Sources of SpecRoundTrip: every PUBLISH first byte before a zero length
FlagSources == {Buf(<<48 + f, 0>>, 0) : f \in 0..15}

\* The size of the whole packet of a header whose remaining length is r
PacketLen(r) == msgLen(r) + (IF r > 0 THEN r ELSE 0)

\* Destination sizes: the short ones, and the size of the whole packet
DstLens(r) == (0..MaxDst) \cup {PacketLen(r)}

SetTypeCall == \E t \in {0, 1, 3, 15} : SetType(t)
SetTypeAny == \E t \in Types : SetType(t)
SetRemainingLengthCall == \E n \in Lengths : SetRemainingLength(n)
SetRemainingLengthFew ==
    \E n \in {-1, 0, 268435455, 268435456} : SetRemainingLength(n)
SetRemainingLengthZero == \E n \in {-1, 0} : SetRemainingLength(n)
SetPacketIdCall == \E v \in PacketIds : SetPacketId(v)
SetPacketIdZero == SetPacketId(0)
SetPacketIdWide == \E v \in PacketIdsWide : SetPacketId(v)
EncodeCall == \E dl \in DstLens(remLen) : Encode(dl)
EncodePacket == Encode(PacketLen(remLen))
\* encode into a destination of exactly Len() bytes
EncodeLen == Encode(msgLen(remLen))
DecodeCall == \E src \in Sources : Decode(src)
DecodeTypes == \E src \in TypeSources : Decode(src)
DecodeFlags == \E src \in FlagSources : Decode(src)
\* decode of the packet buffer the last encode filled
DecodeDst ==
    /\ op = "encode" /\ err = "nil" /\ BufLen(dst) = ret + remLen
    /\ Decode(dst)

Next ==
    \/ Type
    \/ SetTypeCall
    \/ Flags
    \/ SetRemainingLengthFew
    \/ SetPacketIdCall
    \/ EncodePacket
    \/ EncodeLen
    \/ DecodeCall
    \/ DecodeDst

Spec == Init /\ [][Next]_vars

NextTypes ==
    \/ Type
    \/ SetTypeAny
    \/ Flags
    \/ SetRemainingLengthZero
    \/ SetPacketIdZero
    \/ EncodePacket
    \/ DecodeTypes
    \/ DecodeDst

SpecTypes == Init /\ [][NextTypes]_vars

NextRoundTrip ==
    \/ Type
    \/ SetTypeAny
    \/ Flags
    \/ SetRemainingLengthCall
    \/ SetPacketIdWide
    \/ EncodeCall
    \/ DecodeFlags
    \/ DecodeDst

SpecRoundTrip == Init /\ [][NextRoundTrip]_vars

----------------------------------------------------------------------------
(* Properties *)

\* The type and flags the header holds, when a type/flags byte is stored
HType == TypeFlagsByte(mTypeFlags, dBuf) \div 16
HFlags == TypeFlagsByte(mTypeFlags, dBuf) % 16

\* The flags legal for type t
LegalFlags(t, f) ==
    IF t = PUBLISH THEN (f \div 2) % 4 \in {0, 1, 2} ELSE f = DefaultFlags(t)

\* A header with a type in 1..14, flags legal for it and a legal length
LegalHeader ==
    /\ mTypeFlags.ref # "nil"
    /\ HType \in 1..14
    /\ LegalFlags(HType, HFlags)
    /\ remLen >= 0 /\ remLen <= 268435455

\* The steps of decode before the length field is read have passed
PastFlags ==
    err \notin {"InvalidPacketType", "TypeMismatch", "InvalidFlags",
                "InvalidQoS"}

\* The number of bytes of the base-128 varint of r, for 0 <= r <= 268435455
VarintLen(r) ==
    IF r <= 127 THEN 1 ELSE IF r <= 16383 THEN 2 ELSE IF r <= 2097151 THEN 3
    ELSE 4

Pow128(j) == IF j = 0 THEN 1 ELSE IF j = 1 THEN 128 ELSE IF j = 2 THEN 16384
             ELSE 2097152

\* Byte j (1-based) of the k-byte varint of r
VarintByte(r, k, j) ==
    ((r \div Pow128(j - 1)) % 128) + (IF j < k THEN 128 ELSE 0)

\* Bytes 1..k of b are a terminated varint: continuation bits on all but the
\* last
Terminated(b, k) ==
    /\ 1 + k <= BufLen(b)
    /\ ByteAt(b, k) < 128
    /\ \A j \in 1..(k - 1) : ByteAt(b, j) >= 128

\* The value of the k-byte varint at b[1:]
VarintValue(b, k) ==
    LET v[j \in 0..k] ==
            IF j = 0 THEN 0
            ELSE v[j - 1] + (ByteAt(b, j) % 128) * Pow128(j - 1)
    IN  v[k]

\* C1: round trip. A legal header (type 1..14, flags legal for the type,
\* length in 0..268435455) encodes without error into a buffer of
\* Len() + remaining length bytes, and decoding that buffer back into the
\* header succeeds, returns the count encode returned and leaves type, flags
\* and remaining length as they were.
C1_RoundTrip ==
    [][ /\ (op' = "encode" /\ arg' = PacketLen(remLen') /\ LegalHeader')
             => err' = "nil"
        /\ (/\ op = "encode" /\ err = "nil" /\ arg = PacketLen(remLen)
            /\ LegalHeader
            /\ op' = "decode" /\ dBuf' = dst)
             => /\ err' = "nil"
                /\ ret' = ret
                /\ HType' = HType /\ HFlags' = HFlags
                /\ remLen' = remLen ]_vars

\* C1 witness: a PUBLISH header with DUP, QoS 1 and RETAIN and the largest
\* length has been encoded and decoded back.
C1_Witness ==
    /\ op = "decode" /\ err = "nil" /\ ret = 5
    /\ remLen = 268435455
    /\ BufLen(dBuf) = 268435460
    /\ ByteAt(dBuf, 0) = 59

\* C2: an encode that directly follows a successful decode, into a
\* destination with room for the bytes decode consumed, succeeds, returns the
\* count decode returned and writes the bytes of the source it consumed.
C2_EncodeAfterDecode ==
    [][ (/\ op = "decode" /\ err = "nil"
         /\ op' = "encode" /\ arg' >= ret)
          => /\ err' = "nil"
             /\ ret' = ret
             /\ Prefix(dst', ret) = Prefix(dBuf, ret) ]_vars

\* C3 as claimed: once a source has been decoded, no setter changes a byte
\* of it.
C3_NoWriteThrough ==
    [][ (op' \in {"SetType", "SetRemainingLength", "SetPacketId"}
         /\ dBuf # NoBuf)
          => dBuf' = dBuf ]_vars

\* C3 amended: SetRemainingLength, SetPacketId and a failed SetType change no
\* byte of the decoded source; a successful SetType after a decode does not
\* copy: it overwrites byte 0 of the source in place with
\* (t << 4) | DefaultFlags(t) and changes no other byte of it.
C3_OnlySetTypeWritesByte0 ==
    [][ (op' \in {"SetType", "SetRemainingLength", "SetPacketId"}
         /\ dBuf # NoBuf)
          => IF op' = "SetType" /\ err' = "nil"
             THEN /\ mTypeFlags' = InDBuf
                  /\ BufLen(dBuf') = BufLen(dBuf)
                  /\ ByteAt(dBuf', 0) = arg' * 16 + DefaultFlags(arg')
                  /\ \A i \in 1..(Len(dBuf.pre) + Len(dBuf'.pre)) :
                         ByteAt(dBuf', i) = ByteAt(dBuf, i)
             ELSE dBuf' = dBuf ]_vars

\* C3 witness: SetType(PUBLISH) has rewritten the first byte of a decoded
\* six-byte source.
C3_Witness ==
    /\ op = "SetType" /\ arg = 3 /\ err = "nil"
    /\ mTypeFlags = InDBuf
    /\ dBuf = Buf(<<48, 128, 128, 128, 128, 1>>, 0)

\* C4: after a successful decode the header is not dirty.
C4_DecodeClean == (op = "decode" /\ err = "nil") => dirty = FALSE

\* C5 as claimed: a first byte with top nibble 0 or 15 fails with
\* InvalidPacketType, and one with top nibble 1..14 passes the type step
\* whatever type the header held.
C5_TypeStepSourceOnly ==
    [][ (op' = "decode" /\ BufLen(dBuf') > 0)
          => LET t == ByteAt(dBuf', 0) \div 16 IN
             IF t \in 1..14
             THEN err' \notin {"InvalidPacketType", "TypeMismatch"}
             ELSE err' = "InvalidPacketType" ]_vars

\* C5 amended: a first byte with top nibble 0 or 15 fails with
\* InvalidPacketType whatever the header held; one with top nibble 1..14
\* passes the type step exactly when the header held that same type before
\* the call, and otherwise (another type, or none, which reads as type 0)
\* decode fails with its invalid-message-type error.
C5_TypeStepNeedsPriorType ==
    [][ (op' = "decode" /\ BufLen(dBuf') > 0)
          => LET t == ByteAt(dBuf', 0) \div 16
                 prior == IF mTypeFlags.ref = "nil" THEN 0 ELSE HType
             IN  IF t \in 1..14
                 THEN /\ err' # "InvalidPacketType"
                      /\ err' = "TypeMismatch" <=> prior # t
                 ELSE err' = "InvalidPacketType" ]_vars

\* C5 witness: a header that held another type was given a SUBSCRIBE source
\* and decode failed on the type.
C5_Witness ==
    /\ op = "decode" /\ err = "TypeMismatch"
    /\ ByteAt(dBuf, 0) = 130
    /\ dirty

\* C6: when the type and flags steps pass, a successful decode has consumed
\* 1 + k bytes, k in 1..4, whose length bytes are a terminated varint with
\* the stored value, and a length field that is not a terminated varint of
\* at most 4 bytes fails with RemainingLengthOutOfRange.
C6_LengthField ==
    (op = "decode" /\ BufLen(dBuf) > 0 /\ PastFlags)
      => /\ err = "nil"
            => /\ ret \in 2..5
               /\ Terminated(dBuf, ret - 1)
               /\ remLen = VarintValue(dBuf, ret - 1)
         /\ (~\E k \in 1..4 : Terminated(dBuf, k))
            => err = "RemainingLengthOutOfRange"

\* C7: the stored remaining length is always in 0..268435455.
C7_RemLenInRange == remLen >= 0 /\ remLen <= 268435455

\* C8: no call panics.
C8_NoPanic == err # "panic"

\* C9: a successful encode returns 1 + k for the k-byte varint of the
\* length, writes the type/flags byte and then the varint, least significant
\* group first with the high bit on all but the last byte, and leaves every
\* other byte of the destination as it was.
C9_EncodeBytes ==
    (op = "encode" /\ err = "nil")
      => LET k == VarintLen(remLen) IN
         /\ ret = 1 + k
         /\ BufLen(dst) = arg
         /\ ByteAt(dst, 0) = HType * 16 + HFlags
         /\ \A j \in 1..k : ByteAt(dst, j) = VarintByte(remLen, k, j)
         /\ \A i \in (1 + k)..(MaxDst + 8) :
                i < arg => ByteAt(dst, i) = ByteAt(FreshDst(arg), i)

\* C9 witness: a header with a packet identifier and length 2097152 has
\* been encoded into a destination with a byte to spare.
C9_Witness ==
    /\ op = "encode" /\ err = "nil" /\ ret = 5
    /\ remLen = 2097152
    /\ arg = 6
    /\ PacketId = 4321

\* C10 as claimed: a source whose first byte carries a type in 1..14 other
\* than PUBLISH fails with InvalidFlags exactly when its flags differ from
\* the default flags of the type.
C10_FlagsAnyHeader ==
    [][ (/\ op' = "decode" /\ BufLen(dBuf') > 0
         /\ ByteAt(dBuf', 0) \div 16 \in (1..14) \ {PUBLISH})
          => (err' = "InvalidFlags"
                <=> ByteAt(dBuf', 0) % 16
                      # DefaultFlags(ByteAt(dBuf', 0) \div 16)) ]_vars

\* C10 amended: for a header that held type t before the call, t in 1..14
\* and not PUBLISH, decode of a source whose first byte carries type t fails
\* with InvalidFlags exactly when the flags differ from the default flags of
\* t; with the default flags the flag step passes.
C10_FlagsOfHeldType ==
    [][ (/\ op' = "decode" /\ BufLen(dBuf') > 0
         /\ ByteAt(dBuf', 0) \div 16 \in (1..14) \ {PUBLISH}
         /\ mTypeFlags.ref # "nil"
         /\ HType = ByteAt(dBuf', 0) \div 16)
          => (err' = "InvalidFlags"
                <=> ByteAt(dBuf', 0) % 16
                      # DefaultFlags(ByteAt(dBuf', 0) \div 16)) ]_vars

\* C10 witness: a SUBSCRIBE header decoded a SUBSCRIBE byte with flags 0000
\* and failed on the flags.
C10_Witness ==
    /\ op = "decode" /\ err = "InvalidFlags"
    /\ ByteAt(dBuf, 0) = 128

\* C11 as claimed: a source whose first byte carries PUBLISH fails with
\* InvalidQoS exactly when bits 2-1 of its flags are 11, whatever header it
\* is decoded into.
C11_QosAnyHeader ==
    [][ (/\ op' = "decode" /\ BufLen(dBuf') > 0
         /\ ByteAt(dBuf', 0) \div 16 = PUBLISH)
          => (err' = "InvalidQoS"
                <=> ((ByteAt(dBuf', 0) % 16) \div 2) % 4 = 3) ]_vars

\* C11 amended: for a header that held PUBLISH before the call, decode of a
\* source whose first byte carries PUBLISH fails with InvalidQoS exactly
\* when bits 2-1 of the flags are 11, for every value of DUP (bit 3) and
\* RETAIN (bit 0); with QoS 0, 1 or 2 the QoS step passes.
C11_QosOfPublishHeader ==
    [][ (/\ op' = "decode" /\ BufLen(dBuf') > 0
         /\ ByteAt(dBuf', 0) \div 16 = PUBLISH
         /\ mTypeFlags.ref # "nil"
         /\ HType = PUBLISH)
          => /\ err' = "InvalidQoS"
                  <=> ((ByteAt(dBuf', 0) % 16) \div 2) % 4 = 3
             /\ err' \notin {"InvalidPacketType", "TypeMismatch",
                             "InvalidFlags"} ]_vars

\* C11 witness: a PUBLISH byte with DUP, QoS 3 and RETAIN was decoded and
\* failed on the QoS.
C11_Witness ==
    /\ op = "decode" /\ err = "InvalidQoS"
    /\ ByteAt(dBuf, 0) = 63

\* The length field of b is a terminated varint of k bytes, k in 1..4
LengthBytes(b) == {k \in 1..4 : Terminated(b, k)}

\* The outcome C12 describes for a source b with a k-byte length field
TruncationOutcome(b, k, e) ==
    IF VarintValue(b, k) > BufLen(b) - (1 + k)
    THEN e = "TruncatedMessage"
    ELSE e = "nil"

\* C12 as claimed: a source with a type in 1..14, flags legal for it and a
\* terminated length field of 1..4 bytes fails with TruncatedMessage exactly
\* when the length exceeds the bytes that follow the fixed header, and
\* otherwise decode succeeds, whatever header it is decoded into.
C12_TruncationAnyHeader ==
    [][ (/\ op' = "decode" /\ BufLen(dBuf') > 0
         /\ ByteAt(dBuf', 0) \div 16 \in 1..14
         /\ LegalFlags(ByteAt(dBuf', 0) \div 16, ByteAt(dBuf', 0) % 16)
         /\ LengthBytes(dBuf') # {})
          => \A k \in LengthBytes(dBuf') :
                 TruncationOutcome(dBuf', k, err') ]_vars

\* C12 amended: for a header that held the source's type before the call,
\* and a source with flags legal for the type and a terminated length field
\* of 1..4 bytes, decode fails with TruncatedMessage exactly when the decoded
\* remaining length is greater than the number of bytes of the source that
\* follow the fixed header; when it is equal or smaller decode succeeds,
\* returns 1 + the bytes of the length field and stores the length.
C12_TruncationOfHeldType ==
    [][ (/\ op' = "decode" /\ BufLen(dBuf') > 0
         /\ ByteAt(dBuf', 0) \div 16 \in 1..14
         /\ LegalFlags(ByteAt(dBuf', 0) \div 16, ByteAt(dBuf', 0) % 16)
         /\ LengthBytes(dBuf') # {}
         /\ mTypeFlags.ref # "nil"
         /\ HType = ByteAt(dBuf', 0) \div 16)
          => \A k \in LengthBytes(dBuf') :
                 /\ TruncationOutcome(dBuf', k, err')
                 /\ ret' = 1 + k
                 /\ remLen' = VarintValue(dBuf', k) ]_vars

\* C12 witness: a CONNECT source that declares 127 bytes and holds one after
\* the header was decoded and found truncated.
C12_Witness ==
    /\ op = "decode" /\ err = "TruncatedMessage" /\ ret = 2
    /\ remLen = 127
    /\ dBuf = Buf(<<16, 127>>, 1)

\* C13: PacketId returns 0 while no identifier is stored; SetPacketId(v)
\* with v in 1..65535 stores v high byte first and PacketId then returns v;
\* SetPacketId(0) changes no field of the header; encode and decode, and
\* every call but SetPacketId of a nonzero value, leave the identifier as
\* it was.
C13_PacketId ==
    [][ /\ packetID' = <<>> => PacketId' = 0
        /\ (op' = "SetPacketId" /\ arg' # 0)
             => /\ packetID' = <<arg' \div 256, arg' % 256>>
                /\ PacketId' = arg'
        /\ (op' = "SetPacketId" /\ arg' = 0) => UNCHANGED hdr
        /\ ~(op' = "SetPacketId" /\ arg' # 0) => packetID' = packetID ]_vars

\* C13 witness: SetPacketId(4321) has stored 0x10, 0xE1 and PacketId
\* returns 4321.
C13_Witness ==
    /\ op = "SetPacketId" /\ arg = 4321
    /\ packetID = <<16, 225>>
    /\ PacketId = 4321

\* C14: SetRemainingLength(n) fails with RemainingLengthOutOfRange exactly
\* when n < 0 or n > 268435455; a failed call leaves the stored length and
\* the dirty flag (and every other field) as they were; a successful call
\* stores n and leaves the header dirty.
C14_SetRemainingLength ==
    [][ op' = "SetRemainingLength"
          => /\ err' = "RemainingLengthOutOfRange"
                  <=> (arg' < 0 \/ arg' > 268435455)
             /\ err' \in {"nil", "RemainingLengthOutOfRange"}
             /\ err' # "nil" => UNCHANGED hdr
             /\ err' = "nil" => remLen' = arg' /\ dirty' = TRUE ]_vars

\* C14 witness: SetRemainingLength(268435456) has failed on a header that
\* holds the largest legal length.
C14_Witness ==
    /\ op = "SetRemainingLength" /\ arg = 268435456
    /\ err = "RemainingLengthOutOfRange"
    /\ remLen = 268435455

\* C15: SetType(t) fails with InvalidPacketType exactly when t is not in
\* 1..14 and then changes no field; on success the type is t and the flags
\* are the default flags of t whatever was stored before, and dirty changes
\* (to true) exactly when no type/flags byte was stored before the call.
C15_SetType ==
    [][ op' = "SetType"
          => /\ err' = "InvalidPacketType" <=> arg' \notin 1..14
             /\ err' \in {"nil", "InvalidPacketType"}
             /\ err' # "nil" => UNCHANGED hdr
             /\ err' = "nil"
                  => /\ mTypeFlags'.ref # "nil"
                     /\ HType' = arg'
                     /\ HFlags' = DefaultFlags(arg')
                     /\ dirty' = (dirty \/ mTypeFlags.ref = "nil")
                     /\ UNCHANGED <<remLen, packetID>> ]_vars

\* C15 witness: SetType(SUBSCRIBE) has left type 8 and flags 0010 in a byte
\* that lives in a decoded source.
C15_Witness ==
    /\ op = "SetType" /\ arg = 8 /\ err = "nil"
    /\ mTypeFlags = InDBuf
    /\ HType = 8 /\ HFlags = 2

\* The number of bytes PutUvarint writes for uint64(r), r a 32-bit signed
\* value: a negative r sign-extends to a value that takes all ten bytes
UvarintLen(r) ==
    IF r < 0 THEN MaxVarintLen64
    ELSE IF r <= maxRemainingLength THEN VarintLen(r)
    ELSE 5

\* C16: encode fails with BufferTooSmall exactly when the destination is
\* shorter than 1 + the varint length of the stored remaining length; with
\* room in the destination and a length in range it fails with
\* InvalidPacketType when the stored type is not in 1..14 (a fresh header
\* included); every failed encode returns 0 and leaves the destination as it
\* was.
C16_EncodeErrors ==
    op = "encode"
      => /\ err = "BufferTooSmall" <=> arg < 1 + UvarintLen(remLen)
         /\ (/\ arg >= 1 + UvarintLen(remLen)
             /\ remLen >= 0 /\ remLen <= maxRemainingLength
             /\ HType \notin 1..14)
              => err = "InvalidPacketType"
         /\ err # "nil" => ret = 0 /\ dst = FreshDst(arg)

\* The rules of a fixed header, as properties of a source b alone
TypeRule(b) == ByteAt(b, 0) \div 16 \notin 1..14
FlagsRule(b) ==
    /\ ByteAt(b, 0) \div 16 \in (1..14) \ {PUBLISH}
    /\ ByteAt(b, 0) % 16 # DefaultFlags(ByteAt(b, 0) \div 16)
QosRule(b) ==
    /\ ByteAt(b, 0) \div 16 = PUBLISH
    /\ ~ValidQos(((ByteAt(b, 0) % 16) \div 2) % 4)
\* The length field is not a terminated varint of at most 4 bytes
LengthRule(b) == LengthBytes(b) = {}
\* The length field is terminated and its value, as an unbounded integer,
\* exceeds the bytes that follow it (a field with a nonzero group past the
\* fourth is worth 2^28 or more)
TruncatedRule(b) ==
    \E k \in 1..(Len(b.pre) + 1) :
        /\ Terminated(b, k)
        /\ IF \E j \in 5..k : ByteAt(b, j) % 128 # 0
           THEN BufLen(b) - 1 - k < maxRemainingLength + 1
           ELSE VarintValue(b, Min(k, 4)) > BufLen(b) - 1 - k

\* The errors of decode in the order of the claim, and the rule of each
DecodeOrder ==
    <<"InvalidPacketType", "InvalidFlags", "InvalidQoS",
      "RemainingLengthOutOfRange", "TruncatedMessage">>
Violated(b) ==
    {i \in 1..5 : <<TypeRule(b), FlagsRule(b), QosRule(b), LengthRule(b),
                    TruncatedRule(b)>>[i]}

\* C17, for a header that held the source's type before the call: when a
\* source violates several rules at once decode returns the error of the
\* first violated rule in the order invalid type, invalid flags, invalid
\* QoS, length out of range, truncated; and whatever error decode returns,
\* no rule earlier in the order is violated by the source.
C17_FirstError ==
    [][ (/\ op' = "decode" /\ BufLen(dBuf') > 0
         /\ \/ TypeRule(dBuf')
            \/ mTypeFlags.ref # "nil" /\ HType = ByteAt(dBuf', 0) \div 16)
          => LET v == Violated(dBuf') IN
             /\ Cardinality(v) >= 2
                  => err' = DecodeOrder[CHOOSE i \in v : \A j \in v : i <= j]
             /\ \A i \in 1..5 :
                    err' = DecodeOrder[i] => \A j \in v : j >= i ]_vars

\* C18: outside decode, dirty becomes true when Type() or a successful
\* SetType finds no type/flags byte stored and allocates one, when
\* SetPacketId with a nonzero value finds no identifier stored and allocates
\* one, and on every successful SetRemainingLength; no accessor, setter or
\* encode turns dirty from true to false; a successful encode changes no
\* field of the header.
C18_DirtyTransitions ==
    [][ op' # "decode"
          => /\ (/\ op' \in {"Type", "SetType"} /\ err' = "nil"
                 /\ mTypeFlags.ref = "nil")
                  => dirty' /\ mTypeFlags'.ref = "own"
             /\ (op' = "SetPacketId" /\ arg' # 0 /\ packetID = <<>>)
                  => dirty' /\ packetID' # <<>>
             /\ (op' = "SetRemainingLength" /\ err' = "nil") => dirty'
             /\ dirty => dirty'
             /\ (op' = "encode" /\ err' = "nil") => UNCHANGED hdr ]_vars

\* C18 witness: Type() on a header that stored nothing has allocated the
\* byte and left the header dirty.
C18_Witness ==
    /\ op = "Type" /\ dirty
    /\ mTypeFlags = Own(0)
    /\ remLen = 0 /\ packetID = <<>> /\ dBuf = NoBuf
====
